---- MODULE Spec2Model ----
(***************************************************************************)
(* Model of src/colors.py: the Colors cog of irisbot.  Members of one      *)
(* server ask for a name color (set_color with a color), reset it          *)
(* (set_color with None) or, as administrators, purge unused color roles   *)
(* (purgecolors).  Every handler is a coroutine: it runs without           *)
(* interruption up to an `await` of a call to the role store, and other    *)
(* handlers run while that call is in flight.  One action of the model is  *)
(* one such uninterrupted stretch of one handler.                          *)
(***************************************************************************)
EXTENDS Integers, FiniteSets, Sequences, TLC

\* ------------------------------------------------------------------ bounds

\* Number of requests (set_color coroutines) that may be in flight at once.
NumReqs == 2

\* Role ids the store may hand out: 1..MaxRoleId; create_role waits at the cap.
MaxRoleId == 4

\* Commands the dispatch host hands to the cog in one run.
MaxCommands == 3

Reqs == 1..NumReqs
RoleIds == 1..MaxRoleId

Members == {"m1", "m2"}

\* Members with the administrator permission (has_permissions, line 243).
Admins == {"m1"}

\* The effective colors members ask for, as str(color) prints them.
Colors == {"#aa0000", "#00bb00"}

None == "None"

\* Names of the server's color roles: the color codes, one of them also in
\* upper case (a role made by hand).  Role 1, "mod", is no color role.
ColorRoleNames == Colors \cup {"#AA0000"}

ROLE_PREFIX == ""

VARIABLES
    serverRoles,   \* ids of the roles that exist in the server
    roleName,      \* role id -> name, for every id handed out so far
    nextId,        \* the next id create_role hands out
    memberRoles,   \* member -> set of role ids the member holds
    req,           \* request slot -> the frame of a set_color coroutine
    purge,         \* the frame of the purgecolors coroutine
    outcome,       \* what the last step handed to the dispatch host
    commands,      \* number of commands dispatched so far
    calc           \* the call of a pure function of the module under study

vars == <<serverRoles, roleName, nextId, memberRoles, req, purge, outcome, commands,
          calc>>

\* ----------------------------------------------------------- pure helpers

\* str.lower() on the names of the model.
Lower(name) == IF name = "#AA0000" THEN "#aa0000" ELSE name

\* ROLE_REGEX.fullmatch(role.name): ROLE_PREFIX then '#' and six hex digits.
RegexMatches(name) == name \in ColorRoleNames

\* A key_for_role that keeps the case of the role's name.
key_for_role_keeping_case(r) == IF RegexMatches(roleName[r]) THEN roleName[r] ELSE None

\* Colors.key_for_role: the lower-cased code of a color role, else None.
key_for_role(r) == IF RegexMatches(roleName[r]) THEN Lower(roleName[r]) ELSE None

\* Colors.is_color_role
is_color_role(r) == RegexMatches(roleName[r])

\* RoleCache.get_role(server, key): the roles of the server filed under key.
get_role(key) == {r \in serverRoles : key_for_role(r) = key}

\* RoleCache.all_roles(server): the roles of the server that have a key.
all_roles == {r \in serverRoles : key_for_role(r) # None}

\* old_roles = list(filter(self.is_color_role, member.roles))
old_roles_of(roles) == {r \in roles : is_color_role(r)}

\* A set_color that forgets to drop the old color roles.
updated_roles_keeping_old(roles, old, new) == roles \cup {new}

\* updated_roles = [r for r in member.roles if r.id not in old_role_ids] + [new_role]
updated_roles_of(roles, old, new) == (roles \ old) \cup {new}

\* A reset that clears every role of the member.
removed_roles_all(roles, old) == {}

\* remove_roles(member, *old_roles): the member's roles without the given ones.
removed_roles_of(roles, old) == roles \ old

\* name = ROLE_PREFIX + str(color), with ROLE_PREFIX = ''
role_name_for(color) == ROLE_PREFIX \o color

\* A purge that looks at the roles of the administrators only.
used_roles_of_admins(mr) == UNION {mr[m] : m \in Admins}

\* used_roles = set(role.id for member in server.members for role in member.roles)
used_roles_of(mr) == UNION {mr[m] : m \in Members}

\* A purge that deletes every color role.
unused_of_ignoring_use(color_roles, used) == color_roles

\* for role in color_roles: if role.id not in used_roles: (delete it)
unused_of(color_roles, used) == {r \in color_roles : r \notin used}

\* ------------------------------------------------------------------ state

IdleReq == [pc |-> "idle", member |-> None, color |-> None, old_roles |-> {},
            new_role |-> 0, created |-> FALSE, updated_roles |-> {}]

\* Of purgecolors' locals the frame keeps todo, the roles of color_roles that
\* are not in used_roles: the loop reads the two snapshots through that test only.
IdlePurge == [pc |-> "idle", todo |-> {}, deleted |-> 0]

\* Outcomes: nothing yet, an exception of the role store that leaves the command,
\* the refusal of has_permissions, and the replies of color ("Here's your new
\* color."), of color reset and of purgecolors ("Removed n unused color roles.").
NoOutcome == [kind |-> "none", n |-> 0]
NewColor == [kind |-> "new color", n |-> 0]
ColorRemoved == [kind |-> "color removed", n |-> 0]
Failed == [kind |-> "failed", n |-> 0]
PermissionDenied == [kind |-> "PermissionDenied", n |-> 0]
Removed(n) == [kind |-> "Removed", n |-> n]

\* A new request takes the lowest free slot.
free_slot(p) == req[p].pc = "idle" /\ \A q \in Reqs : q < p => req[q].pc # "idle"

\* The dispatch host invokes a command.
dispatch == commands < MaxCommands /\ commands' = commands + 1 /\ UNCHANGED calc

\* No pure function is under study while the commands run.
NoCalc == [fn |-> "none"]

\* A purgecolors by anyone, administrator or not.
has_permissions_ignored(m) == TRUE

\* commands.has_permissions(administrator=True) on the author of the command.
has_permissions(m) == m \in Admins

Init ==
    /\ serverRoles = {1, 2}
    /\ roleName = [i \in RoleIds |->
                     IF i = 1 THEN "mod" ELSE IF i = 2 THEN "#AA0000" ELSE None]
    /\ nextId = 3
    /\ \E held \in [Members -> SUBSET {2}] :
         memberRoles = [m \in Members |-> IF m \in Admins THEN held[m] \cup {1}
                                                          ELSE held[m]]
    /\ req = [p \in Reqs |-> IdleReq]
    /\ purge = IdlePurge
    /\ outcome = NoOutcome
    /\ commands = 0
    /\ calc = NoCalc

\* -------------------------------------------------- set_color with a color

\* The frame of set_color once role_for_color has returned new: lines 179-181
\* up to the await of replace_roles, whose request carries updated_roles.
\* old_roles is not read again.
after_role_for_color(f, roles, new, made) ==
    [f EXCEPT !.pc = "replace_roles", !.new_role = new, !.created = made,
              !.updated_roles = updated_roles_of(roles, f.old_roles, new),
              !.old_roles = {}]

\* color -> set_color(member, server, color), lines 173-178 and 166-170: the
\* member's color roles are read, the role of the color is looked up, and the
\* coroutine awaits create_role (no such role) or replace_roles (lines 179-181).
AssignStart(p, m, c) ==
    /\ dispatch
    /\ free_slot(p)
    /\ LET f == [IdleReq EXCEPT !.member = m, !.color = c,
                                !.old_roles = old_roles_of(memberRoles[m])]
       IN IF get_role(c) = {}
          THEN req' = [req EXCEPT ![p] = [f EXCEPT !.pc = "create_role"]]
          ELSE \E role \in get_role(c) :
                 req' = [req EXCEPT ![p] =
                           after_role_for_color(f, memberRoles[m], role, FALSE)]
    /\ UNCHANGED <<serverRoles, roleName, nextId, memberRoles, purge>>
    /\ outcome' = NoOutcome

\* create_role returns (line 170): the store holds a new role named after the
\* color; set_color goes on to line 181 with the member's roles as they are now.
CreateDone(p) ==
    /\ req[p].pc = "create_role"
    /\ nextId <= MaxRoleId
    /\ serverRoles' = serverRoles \cup {nextId}
    /\ roleName' = [roleName EXCEPT ![nextId] = role_name_for(req[p].color)]
    /\ nextId' = nextId + 1
    /\ req' = [req EXCEPT ![p] =
                 after_role_for_color(req[p], memberRoles[req[p].member], nextId, TRUE)]
    /\ UNCHANGED <<memberRoles, purge>>
    /\ outcome' = NoOutcome
    /\ UNCHANGED <<commands, calc>>

\* create_role raises: the exception leaves set_color and the command.
CreateFail(p) ==
    /\ req[p].pc = "create_role"
    /\ req' = [req EXCEPT ![p] = IdleReq]
    /\ UNCHANGED <<serverRoles, roleName, nextId, memberRoles, purge>>
    /\ outcome' = Failed
    /\ UNCHANGED <<commands, calc>>

\* replace_roles returns (line 181): the member holds exactly updated_roles.
\* The store refuses a list that names a role it no longer has.
ReplaceDone(p) ==
    /\ req[p].pc = "replace_roles"
    /\ req[p].updated_roles \subseteq serverRoles
    /\ memberRoles' = [memberRoles EXCEPT ![req[p].member] = req[p].updated_roles]
    /\ req' = [req EXCEPT ![p] = IdleReq]
    /\ UNCHANGED <<serverRoles, roleName, nextId, purge>>
    /\ outcome' = NewColor
    /\ UNCHANGED <<commands, calc>>

\* replace_roles raises (line 181): nothing is undone.
ReplaceFail(p) ==
    /\ req[p].pc = "replace_roles"
    /\ req' = [req EXCEPT ![p] = IdleReq]
    /\ UNCHANGED <<serverRoles, roleName, nextId, memberRoles, purge>>
    /\ outcome' = Failed
    /\ UNCHANGED <<commands, calc>>

\* ---------------------------------------------------- set_color with None

\* color reset -> set_color(member, server, None), lines 173-176 up to the
\* await of remove_roles, whose request carries the roles the member keeps.
ResetStart(p, m) ==
    /\ dispatch
    /\ free_slot(p)
    /\ LET old == old_roles_of(memberRoles[m])
       IN req' = [req EXCEPT ![p] =
                    [IdleReq EXCEPT !.pc = "remove_roles", !.member = m,
                                    !.updated_roles = removed_roles_of(memberRoles[m], old)]]
    /\ UNCHANGED <<serverRoles, roleName, nextId, memberRoles, purge>>
    /\ outcome' = NoOutcome

\* remove_roles returns (line 176).
RemoveDone(p) ==
    /\ req[p].pc = "remove_roles"
    /\ req[p].updated_roles \subseteq serverRoles
    /\ memberRoles' = [memberRoles EXCEPT ![req[p].member] = req[p].updated_roles]
    /\ req' = [req EXCEPT ![p] = IdleReq]
    /\ UNCHANGED <<serverRoles, roleName, nextId, purge>>
    /\ outcome' = ColorRemoved
    /\ UNCHANGED <<commands, calc>>

\* remove_roles raises (line 176).
RemoveFail(p) ==
    /\ req[p].pc = "remove_roles"
    /\ req' = [req EXCEPT ![p] = IdleReq]
    /\ UNCHANGED <<serverRoles, roleName, nextId, memberRoles, purge>>
    /\ outcome' = Failed
    /\ UNCHANGED <<commands, calc>>

\* ------------------------------------------------------------ purgecolors

\* has_permissions(administrator=True) refuses the command (line 243): the
\* body of purgecolors does not run.
PurgeDenied(m) ==
    /\ dispatch
    /\ ~has_permissions(m)
    /\ UNCHANGED <<serverRoles, roleName, nextId, memberRoles, req, purge>>
    /\ outcome' = PermissionDenied

\* An administrator's purgecolors runs to the await of send_typing (line 253).
PurgeStart(m) ==
    /\ dispatch
    /\ purge.pc = "idle"
    /\ has_permissions(m)
    /\ purge' = [IdlePurge EXCEPT !.pc = "send_typing"]
    /\ UNCHANGED <<serverRoles, roleName, nextId, memberRoles, req>>
    /\ outcome' = NoOutcome

\* Where purgecolors waits once its snapshot is taken and todo is left to delete.
purge_pc(todo) == IF todo = {} THEN "reply" ELSE "delete_role"

\* send_typing returns: lines 255-261, the snapshot of the color roles and of
\* the roles in use, up to the first await of delete_role (or of reply).
PurgeSnapshot ==
    /\ purge.pc = "send_typing"
    /\ LET color_roles == all_roles
           used_roles == used_roles_of(memberRoles)
           todo == unused_of(color_roles, used_roles)
       IN purge' = [purge EXCEPT !.pc = purge_pc(todo), !.todo = todo]
    /\ UNCHANGED <<serverRoles, roleName, nextId, memberRoles, req>>
    /\ outcome' = NoOutcome
    /\ UNCHANGED <<commands, calc>>

\* delete_role returns (lines 262-263): the store drops the role, which no
\* member holds any more, and the loop goes on to the next unused role.
PurgeDelete(r) ==
    /\ purge.pc = "delete_role"
    /\ r \in purge.todo
    /\ r \in serverRoles
    /\ serverRoles' = serverRoles \ {r}
    /\ memberRoles' = [m \in Members |-> memberRoles[m] \ {r}]
    /\ purge' = [purge EXCEPT !.todo = @ \ {r}, !.deleted = @ + 1,
                              !.pc = purge_pc(purge.todo \ {r})]
    /\ UNCHANGED <<roleName, nextId, req>>
    /\ outcome' = NoOutcome
    /\ UNCHANGED <<commands, calc>>

\* The reply is sent (line 265): "Removed {deleted} unused color roles."
PurgeReply ==
    /\ purge.pc = "reply"
    /\ purge' = IdlePurge
    /\ UNCHANGED <<serverRoles, roleName, nextId, memberRoles, req>>
    /\ outcome' = Removed(purge.deleted)
    /\ UNCHANGED <<commands, calc>>

\* send_typing, delete_role or reply raises: the command ends there.
PurgeFail ==
    /\ purge.pc \in {"send_typing", "delete_role", "reply"}
    /\ purge' = IdlePurge
    /\ UNCHANGED <<serverRoles, roleName, nextId, memberRoles, req>>
    /\ outcome' = Failed
    /\ UNCHANGED <<commands, calc>>

\* ---------------------------------------------------------- specification

Next ==
    \/ \E p \in Reqs, m \in Members, c \in Colors : AssignStart(p, m, c)
    \/ \E p \in Reqs : CreateDone(p)
    \/ \E p \in Reqs : CreateFail(p)
    \/ \E p \in Reqs : ReplaceDone(p)
    \/ \E p \in Reqs : ReplaceFail(p)
    \/ \E p \in Reqs, m \in Members : ResetStart(p, m)
    \/ \E p \in Reqs : RemoveDone(p)
    \/ \E p \in Reqs : RemoveFail(p)
    \/ \E m \in Members : PurgeDenied(m)
    \/ \E m \in Members : PurgeStart(m)
    \/ PurgeSnapshot
    \/ \E r \in RoleIds : PurgeDelete(r)
    \/ PurgeReply
    \/ PurgeFail

Spec == Init /\ [][Next]_vars

\* The same handlers when the dispatch host runs one command at a time: a
\* command starts only once every earlier one has ended.
quiet == purge.pc = "idle" /\ \A p \in Reqs : req[p].pc = "idle"

NextSeq ==
    \/ quiet /\ \E p \in Reqs, m \in Members, c \in Colors : AssignStart(p, m, c)
    \/ \E p \in Reqs : CreateDone(p)
    \/ \E p \in Reqs : CreateFail(p)
    \/ \E p \in Reqs : ReplaceDone(p)
    \/ \E p \in Reqs : ReplaceFail(p)
    \/ quiet /\ \E p \in Reqs, m \in Members : ResetStart(p, m)
    \/ \E p \in Reqs : RemoveDone(p)
    \/ \E p \in Reqs : RemoveFail(p)
    \/ quiet /\ \E m \in Members : PurgeDenied(m)
    \/ quiet /\ \E m \in Members : PurgeStart(m)
    \/ PurgeSnapshot
    \/ \E r \in RoleIds : PurgeDelete(r)
    \/ PurgeReply
    \/ PurgeFail

SpecSeq == Init /\ [][NextSeq]_vars

\* ------------------------------------------------------------------ claims

\* The color-Tags a member holds, the other tags it holds, and the tags held
\* by anyone.
ColorTags(m) == {r \in memberRoles[m] : roleName[r] \in ColorRoleNames}
OtherTags(m) == {r \in memberRoles[m] : roleName[r] \notin ColorRoleNames}
HeldTags == UNION {memberRoles[m] : m \in Members}
ServerColorTags == {r \in serverRoles : roleName[r] \in ColorRoleNames}
HexCode(r) == Lower(roleName[r])
InFlight(p) == req[p].pc # "idle"

\* C1: a namespace holds at most one color-Tag per hex code, whatever the
\* interleaving of the requests.
C1_OneTagPerHexCode ==
    \A r1, r2 \in ServerColorTags : HexCode(r1) = HexCode(r2) => r1 = r2

\* C2: whenever an assign or a reset completes successfully the member holds
\* at most one color-Tag, and a purge step never raises a member's count of
\* color-Tags above 1.
C2_AtMostOneColorTagAfterSetColor ==
    [][/\ \A p \in Reqs, m \in Members :
            (req[p].member = m /\ (ReplaceDone(p) \/ RemoveDone(p)))
                => Cardinality(ColorTags(m)') <= 1
       /\ \A r \in RoleIds, m \in Members : PurgeDelete(r)
                => (Cardinality(ColorTags(m)') <= 1
                    \/ Cardinality(ColorTags(m)') <= Cardinality(ColorTags(m)))]_vars

\* C3: no reachable state shows a member with two color-Tags, also when two
\* assigns on that member overlap.
C3_NeverTwoColorTags ==
    \A m \in Members : Cardinality(ColorTags(m)) <= 1

\* C4: a single assign on a member holding exactly one color-Tag changes the
\* member's tags in one step, from the other tags plus the old color-Tag to
\* the other tags plus the target color-Tag; no step of it shows the member
\* with zero or two color-Tags.
C4_AssignReplacesInOneStep ==
    [][\A p \in Reqs, m \in Members, c \in Colors :
         LET during == AssignStart(p, m, c)
                       \/ (req[p].pc \in {"create_role", "replace_roles"}
                           /\ req[p].member = m /\ req[p].color = c)
         IN (during /\ Cardinality(ColorTags(m)) = 1) =>
              \/ memberRoles'[m] = memberRoles[m]
              \/ /\ ReplaceDone(p)
                 /\ OtherTags(m)' = OtherTags(m)
                 /\ Cardinality(ColorTags(m)') = 1
                 /\ \A r \in ColorTags(m)' : HexCode(r) = c]_vars

\* C4 witness: an assign of a new color is in flight, its role made, on a
\* member that holds exactly one color-Tag, of another color.
C4_Witness ==
    \E p \in Reqs :
        /\ req[p].pc = "replace_roles"
        /\ req[p].created
        /\ Cardinality(ColorTags(req[p].member)) = 1
        /\ \A r \in ColorTags(req[p].member) : HexCode(r) # req[p].color

\* C5: a reset removes every color-Tag of the member and leaves the server's
\* tags, the member's other tags and every other member's tags as they were.
C5_ResetFrame ==
    [][\A p \in Reqs :
         /\ \A m \in Members : (req[p].member = m /\ RemoveDone(p)) =>
              /\ ColorTags(m)' = {}
              /\ OtherTags(m)' = OtherTags(m)
              /\ \A o \in Members \ {m} : memberRoles'[o] = memberRoles[o]
              /\ serverRoles' = serverRoles
         /\ ((\E m \in Members : ResetStart(p, m)) \/ RemoveFail(p)) =>
              /\ memberRoles' = memberRoles
              /\ serverRoles' = serverRoles]_vars

\* C5 witness: a reset is in flight for a member that holds a color-Tag and
\* another tag, while the other member holds a color-Tag too.
C5_Witness ==
    \E p \in Reqs :
        /\ req[p].pc = "remove_roles"
        /\ ColorTags(req[p].member) # {}
        /\ OtherTags(req[p].member) # {}
        /\ \E o \in Members \ {req[p].member} : ColorTags(o) # {}

\* C6: a successful assign leaves the member's other tags and every other
\* member's tags as they were, and the member's color-Tags are then exactly
\* the target color-Tag.
C6_AssignFrame ==
    [][\A p \in Reqs, m \in Members : (req[p].member = m /\ ReplaceDone(p)) =>
         /\ OtherTags(m)' = OtherTags(m)
         /\ \A o \in Members \ {m} : memberRoles'[o] = memberRoles[o]
         /\ ColorTags(m)' = {req[p].new_role}]_vars

\* C7: a purge that runs alone deletes exactly the color-Tags no member
\* holds and nothing else, reports the number of tags it deleted, and leaves
\* every remaining color-Tag held by some member.
C7_PurgeAlone ==
    [][/\ PurgeSnapshot =>
            /\ purge'.todo = ServerColorTags \ HeldTags
            /\ purge'.deleted = 0
       /\ \A r \in RoleIds : PurgeDelete(r) =>
            /\ r \in ServerColorTags \ HeldTags
            /\ serverRoles' = serverRoles \ {r}
            /\ memberRoles' = memberRoles
            /\ purge'.deleted = purge.deleted + 1
       /\ PurgeReply =>
            /\ ServerColorTags \subseteq HeldTags
            /\ outcome'.n = purge.deleted
            /\ UNCHANGED <<serverRoles, memberRoles>>
       /\ (purge.pc = "delete_role" /\ purge'.pc = "delete_role") =>
            Cardinality(serverRoles') < Cardinality(serverRoles)]_vars

\* C7 witness: a purge has replied that it removed at least one role, and a
\* color-Tag that is in use remains.
C7_Witness ==
    /\ outcome.kind = "Removed"
    /\ outcome.n >= 1
    /\ ServerColorTags # {}

\* C8: a purge never deletes a color-Tag that some member holds at the
\* moment of the deletion.
C8_PurgeSparesColorsInUse ==
    [][\A r \in RoleIds : PurgeDelete(r) => r \notin HeldTags]_vars

\* C9: a tag leaves the server only by a delete_role step of purge, on a
\* color-Tag that no member held in the snapshot purge took; no step of
\* assign or reset deletes a tag.
C9_OnlyPurgeDeletesUnheld ==
    [][/\ serverRoles \ serverRoles' # {} =>
            \E r \in purge.todo : PurgeDelete(r) /\ serverRoles \ serverRoles' = {r}
       /\ PurgeSnapshot => purge'.todo \subseteq ServerColorTags \ HeldTags
       /\ purge.pc = "delete_role" => purge'.todo \subseteq purge.todo]_vars

\* C9 witness: a purge has deleted a role and goes on deleting.
C9_Witness ==
    /\ purge.pc = "delete_role"
    /\ purge.deleted >= 1

\* C10: an assign that fails leaves no trace: the member's tags are as they
\* were and the server holds no tag that the failed assign made.
C10_FailedAssignLeavesNoTrace ==
    [][\A p \in Reqs : (CreateFail(p) \/ ReplaceFail(p)) =>
         /\ memberRoles' = memberRoles
         /\ ~(req[p].created /\ req[p].new_role \in serverRoles')]_vars

\* C11: a purge request of a member without the administrator permission is
\* answered PermissionDenied and changes nothing: no tag is deleted, no
\* member's tags change, and no purge starts.
C11_PurgeDeniedChangesNothing ==
    [][\A m \in Members \ Admins : (PurgeStart(m) \/ PurgeDenied(m)) =>
         /\ outcome' = PermissionDenied
         /\ UNCHANGED <<serverRoles, roleName, memberRoles, purge, req>>]_vars

\* C11 witness: a purge was just refused while a color-Tag nobody holds was
\* there to delete.
C11_Witness ==
    /\ outcome = PermissionDenied
    /\ ServerColorTags \ HeldTags # {}

TagsOfCode(c) == {r \in ServerColorTags : HexCode(r) = c}

\* C19: with the commands one after the other, an assign goes on to create a
\* tag only when the namespace has no tag of the target hex code at its lookup,
\* and otherwise creates nothing and takes an existing tag of that code; a tag
\* is created only while the code has none, so members holding tags of one
\* code hold the same single tag.
C19_CreateOnlyWhenMissing ==
    [][/\ \A p \in Reqs, m \in Members, c \in Colors : AssignStart(p, m, c) =>
            /\ serverRoles' = serverRoles
            /\ IF TagsOfCode(c) = {}
               THEN req'[p].pc = "create_role"
               ELSE /\ req'[p].pc = "replace_roles"
                    /\ req'[p].new_role \in TagsOfCode(c)
                    /\ ~req'[p].created
       /\ \A p \in Reqs : CreateDone(p) => TagsOfCode(req[p].color) = {}
       /\ \A m1, m2 \in Members : \A r1 \in ColorTags(m1)', r2 \in ColorTags(m2)' :
            HexCode(r1)' = HexCode(r2)' => r1 = r2]_vars

\* C19 witness: two members were assigned the same color one after the other
\* and share the tag that the first assign created.
C19_Witness ==
    \E r \in ServerColorTags :
       /\ r >= 3
       /\ \A m \in Members : r \in memberRoles[m]
       /\ outcome = NewColor

\* ====================================================== the pure functions
\* The module-level functions of colors.py are studied one call at a time,
\* with no command running: the variables of the cog stay as NoCommands
\* leaves them and calc holds the frame of the call.

cogVars == <<serverRoles, roleName, nextId, memberRoles, req, purge, outcome, commands>>

NoCommands ==
    /\ serverRoles = {1, 2}
    /\ roleName = [i \in RoleIds |->
                     IF i = 1 THEN "mod" ELSE IF i = 2 THEN "#AA0000" ELSE None]
    /\ nextId = 3
    /\ memberRoles = [m \in Members |-> IF m \in Admins THEN {1} ELSE {}]
    /\ req = [p \in Reqs |-> IdleReq]
    /\ purge = IdlePurge
    /\ outcome = NoOutcome
    /\ commands = 0

\* The values of a color channel, one byte.
Bytes == 0 .. 255

\* Python's x & y, x | y, x << k and x >> k on non-negative integers.
RECURSIVE BitAnd(_, _)
BitAnd(x, y) ==
    IF x = 0 \/ y = 0 THEN 0
    ELSE (x % 2) * (y % 2) + 2 * BitAnd(x \div 2, y \div 2)

RECURSIVE BitOr(_, _)
BitOr(x, y) ==
    IF x = 0 THEN y
    ELSE IF y = 0 THEN x
    ELSE (IF x % 2 = 1 \/ y % 2 = 1 THEN 1 ELSE 0) + 2 * BitOr(x \div 2, y \div 2)

ShiftL(x, k) == x * 2^k
ShiftR(x, k) == x \div 2^k

\* A quantize that leaves out the last term, top >> 6.
quantize_two_terms(x) ==
    LET top == BitAnd(x, ShiftL(7, 5))
    IN BitOr(top, ShiftR(top, 3))

\* quantize: top = x & (7 << 5); return top | top >> 3 | top >> 6
quantize(x) ==
    LET top == BitAnd(x, ShiftL(7, 5))
    IN BitOr(BitOr(top, ShiftR(top, 3)), ShiftR(top, 6))

\* ------------------------------------------------------- quantize, twice

\* quantize is about to be called on the channel value x.
InitQuantize ==
    /\ NoCommands
    /\ \E v \in Bytes : calc = [fn |-> "quantize", pc |-> "call", x |-> v, q1 |-> 0, q2 |-> 0]

\* quantize(x) returns q1.
QuantizeCall ==
    /\ calc.fn = "quantize" /\ calc.pc = "call"
    /\ calc' = [calc EXCEPT !.pc = "once", !.q1 = quantize(calc.x)]
    /\ UNCHANGED cogVars

\* quantize(q1) returns q2.
QuantizeAgain ==
    /\ calc.fn = "quantize" /\ calc.pc = "once"
    /\ calc' = [calc EXCEPT !.pc = "twice", !.q2 = quantize(calc.q1)]
    /\ UNCHANGED cogVars

NextQuantize == QuantizeCall \/ QuantizeAgain

SpecQuantize == InitQuantize /\ [][NextQuantize]_vars

\* C14: quantize maps every channel value 0..255 into 0..255, into a set of at
\* most 8 values, with quantize(255) = 255 and quantize(v) = 0 for v < 32, and
\* it is idempotent: quantize(quantize(v)) = quantize(v).
C14_QuantizeIdempotentEightValues ==
    /\ calc.pc # "call" =>
         /\ calc.q1 \in Bytes
         /\ calc.q1 \in {quantize(v) : v \in Bytes}
         /\ Cardinality({quantize(v) : v \in Bytes}) <= 8
         /\ calc.x = 255 => calc.q1 = 255
         /\ calc.x < 32 => calc.q1 = 0
    /\ calc.pc = "twice" => calc.q2 = calc.q1

\* C14 witness: quantize was applied twice to 200, which it moves (to 219).
C14_Witness ==
    /\ calc.fn = "quantize" /\ calc.pc = "twice"
    /\ calc.x = 200 /\ calc.q1 = 219 /\ calc.q2 = 219

\* ------------------------------------------------------ bisection_search

\* def bisection_search(f, a, b, *, n=10): the default number of iterations.
bisection_n == 10

\* The interval [a, b] of a call, measured from a in units of (b - a) / 2^(n+1):
\* every midpoint of the n iterations is a whole number of units.
LowerEnd == 0
UpperEnd == 2^(bisection_n + 1)
Points == LowerEnd .. UpperEnd

\* The predicates f of the calls: true from theta upwards ("up", the test of
\* the dark branch of clamp_luminance), true up to theta ("down", the test of
\* the bright branch), and one that is not monotone ("bump").
PredicateKinds == {"up", "down", "bump"}
Monotone(kind) == kind \in {"up", "down"}
f(kind, theta, x) ==
    CASE kind = "up" -> x >= theta
      [] kind = "down" -> x <= theta
      [] kind = "bump" -> x >= theta \/ (theta - 700 <= x /\ x < theta - 300)

\* A loop body that moves the wrong end of the interval.
bisection_update_swapped(fr, m, fm) ==
    IF fm = fr.fa THEN [fr EXCEPT !.b = m, !.fb = fm]
                  ELSE [fr EXCEPT !.a = m, !.fa = fm]

\* if fm != fa: b, fb = m, fm  else: a, fa = m, fm
bisection_update(fr, m, fm) ==
    IF fm # fr.fa THEN [fr EXCEPT !.b = m, !.fb = fm]
                  ELSE [fr EXCEPT !.a = m, !.fa = fm]

\* bisection_search(f, a, b) has evaluated fa = f(a) and fb = f(b), which differ.
InitBisection ==
    /\ NoCommands
    /\ \E kind \in PredicateKinds, theta \in Points :
         /\ f(kind, theta, LowerEnd) # f(kind, theta, UpperEnd)
         /\ calc = [fn |-> "bisection_search", pc |-> "loop", kind |-> kind,
                    theta |-> theta, a |-> LowerEnd, b |-> UpperEnd,
                    fa |-> f(kind, theta, LowerEnd), fb |-> f(kind, theta, UpperEnd),
                    i |-> 0, ret |-> LowerEnd]

\* One iteration of for i in range(n).
BisectionStep ==
    /\ calc.fn = "bisection_search" /\ calc.pc = "loop"
    /\ calc.i < bisection_n
    /\ LET m == (calc.a + calc.b) \div 2
           fm == f(calc.kind, calc.theta, m)
       IN calc' = [bisection_update(calc, m, fm) EXCEPT !.i = calc.i + 1]
    /\ UNCHANGED cogVars

\* return a if fa else b
BisectionReturn ==
    /\ calc.fn = "bisection_search" /\ calc.pc = "loop"
    /\ calc.i = bisection_n
    /\ calc' = [calc EXCEPT !.pc = "returned",
                            !.ret = IF calc.fa THEN calc.a ELSE calc.b]
    /\ UNCHANGED cogVars

NextBisection == BisectionStep \/ BisectionReturn

SpecBisection == InitBisection /\ [][NextBisection]_vars

Distance(x, y) == IF x >= y THEN x - y ELSE y - x

\* C18: for a predicate with f(a) # f(b) bisection_search runs exactly n = 10
\* iterations and then returns; throughout, the lower end keeps the truth value
\* of the initial a and the upper end that of the initial b, the width after i
\* iterations is (b - a) / 2^i, and the value returned is the end at which f is
\* true; for a monotone f it lies within (b - a) / 2^n of the boundary theta.
C18_BisectionSearch ==
    /\ calc.i <= bisection_n
    /\ calc.fa = f(calc.kind, calc.theta, LowerEnd)
    /\ calc.fb = f(calc.kind, calc.theta, UpperEnd)
    /\ calc.fa = f(calc.kind, calc.theta, calc.a)
    /\ calc.fb = f(calc.kind, calc.theta, calc.b)
    /\ (calc.b - calc.a) * 2^calc.i = UpperEnd - LowerEnd
    /\ calc.pc = "returned" =>
         /\ calc.i = bisection_n
         /\ calc.ret \in {calc.a, calc.b}
         /\ f(calc.kind, calc.theta, calc.ret)
         /\ Monotone(calc.kind) =>
              Distance(calc.ret, calc.theta) * 2^bisection_n <= UpperEnd - LowerEnd

\* C18 witness: a search has returned after moving both ends of the interval.
C18_Witness ==
    /\ calc.fn = "bisection_search" /\ calc.pc = "returned"
    /\ calc.kind = "up" /\ calc.theta = 777
    /\ calc.a > LowerEnd /\ calc.b < UpperEnd
    /\ calc.ret = calc.b

\* ---------------------------------------------------------- hex2color

\* A str is the sequence of its characters.
HexDigits == <<"0", "1", "2", "3", "4", "5", "6", "7", "8", "9",
               "a", "b", "c", "d", "e", "f">>
UpperDigits == <<"A", "B", "C", "D", "E", "F">>
IsHexDigit(ch) ==
    \/ \E k \in 1 .. 16 : HexDigits[k] = ch
    \/ \E k \in 1 .. 6 : UpperDigits[k] = ch
DigitValue(ch) ==
    IF \E k \in 1 .. 16 : HexDigits[k] = ch
    THEN (CHOOSE k \in 1 .. 16 : HexDigits[k] = ch) - 1
    ELSE (CHOOSE k \in 1 .. 6 : UpperDigits[k] = ch) + 9

\* The results of a call: a discord.Color holding value, or an exception.
Color(value) == [ok |-> TRUE, value |-> value]
ValueError == [ok |-> FALSE, value |-> 0]

\* str.strip() of the whitespace that int() ignores around its argument.
RECURSIVE LStrip(_)
LStrip(str) == IF str # <<>> /\ str[1] = " " THEN LStrip(Tail(str)) ELSE str
RECURSIVE RStrip(_)
RStrip(str) ==
    IF str # <<>> /\ str[Len(str)] = " " THEN RStrip(SubSeq(str, 1, Len(str) - 1))
    ELSE str

\* The digits of an int literal: hex digits, with single underscores between
\* them where the interpreter accepts them (Python 3.6 and later).
DigitsOk(str, underscores) ==
    /\ str # <<>>
    /\ IsHexDigit(str[1]) /\ IsHexDigit(str[Len(str)])
    /\ \A k \in 1 .. Len(str) :
         \/ IsHexDigit(str[k])
         \/ /\ underscores /\ str[k] = "_"
            /\ IsHexDigit(str[k - 1]) /\ IsHexDigit(str[k + 1])

RECURSIVE DigitsValue(_, _)
DigitsValue(str, acc) ==
    IF str = <<>> THEN acc
    ELSE IF str[1] = "_" THEN DigitsValue(Tail(str), acc)
    ELSE DigitsValue(Tail(str), 16 * acc + DigitValue(str[1]))

\* int(code, base=16): surrounding whitespace, one sign and a 0x prefix are
\* accepted, and an underscore may follow the prefix where underscores are.
int16(code, underscores) ==
    LET t == RStrip(LStrip(code))
        signed == t # <<>> /\ t[1] \in {"+", "-"}
        u == IF signed THEN Tail(t) ELSE t
        prefixed == Len(u) >= 2 /\ u[1] = "0" /\ u[2] \in {"x", "X"}
        v == IF prefixed THEN SubSeq(u, 3, Len(u)) ELSE u
        w == IF prefixed /\ underscores /\ v # <<>> /\ v[1] = "_" THEN Tail(v) ELSE v
    IN IF ~DigitsOk(w, underscores) THEN ValueError
       ELSE IF signed /\ t[1] = "-" THEN Color(0 - DigitsValue(w, 0))
       ELSE Color(DigitsValue(w, 0))

\* A doubling that repeats the whole code: 'xyz' becomes 'xyzxyz'.
join_repeated(code) == code \o code

\* ''.join(c + c for c in code)
RECURSIVE join_doubled(_)
join_doubled(code) ==
    IF code = <<>> THEN <<>>
    ELSE <<code[1], code[1]>> \o join_doubled(Tail(code))

\* hex2color(code), run by an interpreter that accepts underscores or not.
hex2color(code) ==
    LET c1 == IF code # <<>> /\ code[1] = "#" THEN Tail(code) ELSE code
        c2 == IF Len(c1) = 3 THEN join_doubled(c1) ELSE c1
    IN IF Len(c2) # 6 THEN ValueError ELSE int16(c2, calc.underscores)

\* str(color) of a discord.Color: '#' and the value as six lower-case hex digits.
str_color(value) ==
    <<"#">> \o [k \in 1 .. 6 |-> HexDigits[((value \div 16^(6 - k)) % 16) + 1]]

\* from_rgb on whole numbers: each channel is clamped to 0..255 (int() then
\* changes nothing) and the three are packed as r << 16 | g << 8 | b.
ClampByte(x) == IF x < 0 THEN 0 ELSE IF x > 255 THEN 255 ELSE x
from_rgb(r, g, b) ==
    BitOr(BitOr(ShiftL(ClampByte(r), 16), ShiftL(ClampByte(g), 8)), ClampByte(b))

\* ------------------------------------- hex2color after str(), and shorthand

\* Channel values of the colors formatted and parsed back.
ChannelSamples == {0, 9, 10, 15, 16, 128, 171, 255}

\* The characters a hex code is written with.
HexChars == {HexDigits[k] : k \in 1 .. 16} \cup {UpperDigits[k] : k \in 1 .. 6}

Hash(present) == IF present THEN <<"#">> ELSE <<>>

HexFrame == [fn |-> "hex2color", pc |-> "call", underscores |-> FALSE, color |-> 0,
             code |-> <<>>, long |-> <<>>, ret |-> ValueError, ret2 |-> ValueError]

\* Either a color is about to be formatted and parsed back, or a 3-digit code
\* and its 6-digit spelling are about to be parsed.
InitHexRoundTrip ==
    /\ NoCommands
    /\ \E underscores \in BOOLEAN :
         \/ \E r, g, b \in ChannelSamples :
              calc = [HexFrame EXCEPT !.pc = "format", !.underscores = underscores,
                                      !.color = from_rgb(r, g, b)]
         \/ \E x, y, z \in HexChars, h1, h2 \in BOOLEAN :
              calc = [HexFrame EXCEPT !.pc = "short", !.underscores = underscores,
                                      !.code = Hash(h1) \o <<x, y, z>>,
                                      !.long = Hash(h2) \o <<x, x, y, y, z, z>>]

\* str(color)
FormatColor ==
    /\ calc.fn = "hex2color" /\ calc.pc = "format"
    /\ calc' = [calc EXCEPT !.pc = "parse", !.code = str_color(calc.color)]
    /\ UNCHANGED cogVars

\* hex2color(str(color))
ParseFormatted ==
    /\ calc.fn = "hex2color" /\ calc.pc = "parse"
    /\ calc' = [calc EXCEPT !.pc = "parsed", !.ret = hex2color(calc.code)]
    /\ UNCHANGED cogVars

\* hex2color of the 3-digit code
ParseShort ==
    /\ calc.fn = "hex2color" /\ calc.pc = "short"
    /\ calc' = [calc EXCEPT !.pc = "long", !.ret = hex2color(calc.code)]
    /\ UNCHANGED cogVars

\* hex2color of the 6-digit code
ParseLong ==
    /\ calc.fn = "hex2color" /\ calc.pc = "long"
    /\ calc' = [calc EXCEPT !.pc = "both", !.ret2 = hex2color(calc.long)]
    /\ UNCHANGED cogVars

NextHexRoundTrip == FormatColor \/ ParseFormatted \/ ParseShort \/ ParseLong

SpecHexRoundTrip == InitHexRoundTrip /\ [][NextHexRoundTrip]_vars

\* C15: parsing the canonical '#rrggbb' string of a color gives the color
\* back, and a 3-digit code 'xyz', with or without '#', parses to the same
\* color as the 6-digit code 'xxyyzz'.
C15_HexRoundTripAndShorthand ==
    /\ calc.pc = "parsed" => calc.ret = Color(calc.color)
    /\ calc.pc = "both" => calc.ret.ok /\ calc.ret = calc.ret2

\* C15 witness: '#4b3' and '44bb33' were both parsed, to the color (68, 187, 51)
\* whose string is '#44bb33'.
C15_Witness ==
    /\ calc.pc = "both" /\ calc.code = <<"#", "4", "b", "3">>
    /\ calc.long = <<"4", "4", "b", "b", "3", "3">>
    /\ calc.ret2 = Color(68 * 65536 + 187 * 256 + 51)
    /\ str_color(calc.ret.value) = <<"#">> \o calc.long

\* ------------------------------------------------ hex2color on any string

\* The characters of the strings handed to hex2color: hex digits, a blank, a
\* sign, an underscore and an x.
CodeChars == {"0", "f", " ", "+", "_", "x"}
CodeLengths == 0 .. 6

InitHexParse ==
    /\ NoCommands
    /\ \E underscores, h \in BOOLEAN, k \in CodeLengths :
         \E body \in [1 .. k -> CodeChars] :
            calc = [HexFrame EXCEPT !.underscores = underscores,
                                    !.code = Hash(h) \o body]

\* hex2color(code) returns or raises.
Hex2ColorCall ==
    /\ calc.fn = "hex2color" /\ calc.pc = "call"
    /\ calc' = [calc EXCEPT !.pc = "returned", !.ret = hex2color(calc.code)]
    /\ UNCHANGED cogVars

NextHexParse == Hex2ColorCall

SpecHexParse == InitHexParse /\ [][NextHexParse]_vars

\* The code without one leading '#' is exactly 3 or exactly 6 hex digits.
StrictHex(code) ==
    LET body == IF code # <<>> /\ code[1] = "#" THEN Tail(code) ELSE code
    IN Len(body) \in {3, 6} /\ \A k \in 1 .. Len(body) : IsHexDigit(body[k])

\* C16: hex2color returns a color only for a code that, after one optional
\* leading '#', is exactly 3 or exactly 6 hexadecimal digits; every other
\* string is rejected.
C16_RejectsAllButHexDigits ==
    calc.pc = "returned" /\ calc.ret.ok => StrictHex(calc.code)

\* ------------------------------------------------------- get_color_info

\* _hexcolor.fullmatch(color): '#?([0-9A-Fa-f]{3}|[0-9A-Fa-f]{6})'
hexcolor_fullmatch(color) ==
    LET body == IF color # <<>> /\ color[1] = "#" THEN Tail(color) ELSE color
    IN (Len(body) = 3 \/ Len(body) = 6) /\ \A k \in 1 .. Len(body) : IsHexDigit(body[k])

\* The name service (module colornames): its entries, a hex code and the
\* color it denotes under a canonical name. One name, bad, is also a hex code.
violet == <<"v", "i", "o", "l", "e", "t">>
red == <<"r", "e", "d">>
bad == <<"b", "a", "d">>
Entries ==
    {[code |-> <<"#", "e", "e", "8", "2", "e", "e">>, value |-> 15631086, canonical |-> violet],
     [code |-> <<"#", "f", "f", "0", "0", "0", "0">>, value |-> 16711680, canonical |-> red],
     [code |-> <<"#", "1", "2", "3", "4", "5", "6">>, value |-> 1193046, canonical |-> bad]}
NoEntry == [code |-> <<>>, value |-> 0, canonical |-> <<>>]
CanonicalNames == {e.canonical : e \in Entries}
EntryOf(name) == CHOOSE e \in Entries : e.canonical = name

\* The texts handed to get_color_info: hex codes, names, and neither.
Inputs ==
    {<<"#", "b", "a", "d">>, bad, <<"B", "A", "D">>,
     <<"#", "a", "a", "B", "B", "0", "9">>, <<"#", "g", "g", "g">>,
     violet, <<"V", "I", "O", "L", "E", "T">>, <<"v", "i", "o">>, <<"r", "e">>,
     <<"z", "z", "z">>, <<>>}

\* The pair get_color_info returns: a color or None, and a list of names.
NoneColor == [ok |-> FALSE, value |-> 0 - 1]
Info(color, names) == [raised |-> ~color.ok /\ color # NoneColor, color |-> color, names |-> names]

\* A test that takes the first of several candidates.
single_candidate_any(candidates) == candidates # {}

\* len(candidates) == 1
single_candidate(candidates) == Cardinality(candidates) = 1

\* get_color_info(color) is called. The answers the name service would give
\* for this text are fixed: exact for find_exact(color), candidates for
\* disambiguate(color); find_exact of a canonical name returns its entry.
InitColorInfo ==
    /\ NoCommands
    /\ \E underscores \in BOOLEAN, input \in Inputs,
          exact \in Entries \cup {NoEntry}, candidates \in SUBSET CanonicalNames :
         /\ input \in CanonicalNames => exact = EntryOf(input)
         /\ calc = [fn |-> "get_color_info", pc |-> "call", underscores |-> underscores,
                    input |-> input, exact |-> exact, candidates |-> candidates,
                    asked |-> <<>>, ret |-> Info(NoneColor, {})]

\* if _hexcolor.fullmatch(color): return hex2color(color), []
ColorInfoHex ==
    /\ calc.fn = "get_color_info" /\ calc.pc = "call"
    /\ IF hexcolor_fullmatch(calc.input)
       THEN calc' = [calc EXCEPT !.pc = "returned",
                                 !.ret = Info(hex2color(calc.input), {})]
       ELSE calc' = [calc EXCEPT !.pc = "find_exact"]
    /\ UNCHANGED cogVars

\* exact = colornames.find_exact(color); if exact: return hex2color(code), [canonical]
ColorInfoExact ==
    /\ calc.fn = "get_color_info" /\ calc.pc = "find_exact"
    /\ LET asked == Append(calc.asked, "find_exact")
       IN IF calc.exact # NoEntry
          THEN calc' = [calc EXCEPT !.pc = "returned", !.asked = asked,
                          !.ret = Info(hex2color(calc.exact.code), {calc.exact.canonical})]
          ELSE calc' = [calc EXCEPT !.pc = "disambiguate", !.asked = asked]
    /\ UNCHANGED cogVars

\* candidates = colornames.disambiguate(color); one candidate is looked up with
\* find_exact, otherwise: return None, candidates
ColorInfoDisambiguate ==
    /\ calc.fn = "get_color_info" /\ calc.pc = "disambiguate"
    /\ LET asked == Append(calc.asked, "disambiguate")
       IN IF single_candidate(calc.candidates)
          THEN \E best \in calc.candidates :
                 calc' = [calc EXCEPT !.pc = "returned",
                            !.asked = Append(asked, "find_exact"),
                            !.ret = Info(hex2color(EntryOf(best).code),
                                         {EntryOf(best).canonical})]
          ELSE calc' = [calc EXCEPT !.pc = "returned", !.asked = asked,
                                    !.ret = Info(NoneColor, calc.candidates)]
    /\ UNCHANGED cogVars

NextColorInfo == ColorInfoHex \/ ColorInfoExact \/ ColorInfoDisambiguate

SpecColorInfo == InitColorInfo /\ [][NextColorInfo]_vars

\* The colors of the hex codes among Inputs.
HexValueOf(input) ==
    IF Len(input) = 7 THEN 170 * 65536 + 187 * 256 + 9     \* #aaBB09
    ELSE 187 * 65536 + 170 * 256 + 221                    \* #bad, bad, BAD: #bbaadd

\* C12: get_color_info returns exactly one of: for a text matching the strict
\* hex pattern, the color of the code and no name, without asking the name
\* service; otherwise, for an exact name, its color and canonical name;
\* otherwise, for exactly one candidate, that candidate's color and name; for
\* no candidate, no color and the empty list; for several candidates, no color
\* and the candidates. A color never comes with more than one name, and no
\* call fails.
C12_ColorInfoClassifies ==
    /\ StrictHex(calc.input) => calc.asked = <<>>
    /\ calc.pc = "returned" =>
         /\ ~calc.ret.raised
         /\ calc.ret.color.ok => Cardinality(calc.ret.names) <= 1
         /\ IF StrictHex(calc.input)
            THEN calc.ret = Info(Color(HexValueOf(calc.input)), {})
            ELSE IF calc.exact # NoEntry
            THEN calc.ret = Info(Color(calc.exact.value), {calc.exact.canonical})
            ELSE IF Cardinality(calc.candidates) = 1
            THEN \E name \in calc.candidates :
                    calc.ret = Info(Color(EntryOf(name).value), {name})
            ELSE calc.ret = Info(NoneColor, calc.candidates)

\* C12 witness: a text with no exact match and two candidates came back
\* without a color and with both candidates, after both questions to the
\* name service.
C12_Witness ==
    /\ calc.fn = "get_color_info" /\ calc.pc = "returned"
    /\ calc.input = <<"r", "e">>
    /\ calc.candidates = {red, violet}
    /\ calc.asked = <<"find_exact", "disambiguate">>
    /\ calc.ret = Info(NoneColor, {red, violet})

\* ------------------------------------ color: from desired to effective color

\* The channels of a discord.Color.
RedOf(value) == (value \div 65536) % 256
GreenOf(value) == (value \div 256) % 256
BlueOf(value) == value % 256

\* rgb9(color)
rgb9(value) == from_rgb(quantize(RedOf(value)), quantize(GreenOf(value)),
                        quantize(BlueOf(value)))

\* clamp_luminance is followed on the grays (v, v, v), where the luminance is
\* the transfer function of the one channel value: with a in units of 1/1024
\* and max(v, 0.5) in halves, relative_luminance(scale_color(a, srgb, clamp=1))
\* is at least MIN_LUMINANCE = 0.15 exactly when a * v is at least
\* 2048 * 108.0136..., and at most MAX_LUMINANCE = 0.75 exactly when it is at
\* most 2048 * 224.6103...
GrayMinBound == 221212
GrayMaxBound == 460002
Unit == 1024
HalvesOf(v) == IF 2 * v > 1 THEN 2 * v ELSE 1
luminance_reaches_min(a, v2) == a * v2 >= GrayMinBound
luminance_within_max(a, v2) == a * v2 <= GrayMaxBound

\* The test f that clamp_luminance hands to bisection_search.
clamp_f(kind, a, v2) ==
    IF kind = "dark" THEN luminance_reaches_min(a, v2) ELSE luminance_within_max(a, v2)

\* from_rgb(*scale_color(a * 255, srgb)) for a gray: a * max(v, 0.5), truncated.
scaled_gray(a, v2) ==
    LET c == (a * v2) \div (2 * Unit) IN from_rgb(c, c, c)

\* The color command holds desired_color, a gray, and LIMIT_PALETTE is set or not.
InitEffectiveColor ==
    /\ NoCommands
    /\ \E v \in Bytes, limit \in BOOLEAN :
         calc = [fn |-> "color", pc |-> "rgb9", LIMIT_PALETTE |-> limit,
                 desired_color |-> from_rgb(v, v, v),
                 effective_color |-> from_rgb(v, v, v), stages |-> <<>>,
                 kind |-> "none", a |-> 0, b |-> 0, fa |-> FALSE, fb |-> FALSE, i |-> 0]

\* if LIMIT_PALETTE: effective_color = rgb9(effective_color)
EffectiveRgb9 ==
    /\ calc.fn = "color" /\ calc.pc = "rgb9"
    /\ IF calc.LIMIT_PALETTE
       THEN calc' = [calc EXCEPT !.pc = "clamp_luminance",
                                 !.effective_color = rgb9(calc.effective_color),
                                 !.stages = Append(calc.stages, "rgb9")]
       ELSE calc' = [calc EXCEPT !.pc = "clamp_luminance"]
    /\ UNCHANGED cogVars

\* clamp_luminance(effective_color): a color in the band is returned as it is,
\* a darker or brighter one starts bisection_search(f, 1, 255) or (f, 0, 1).
ClampStart ==
    /\ calc.fn = "color" /\ calc.pc = "clamp_luminance"
    /\ LET v2 == HalvesOf(RedOf(calc.effective_color))
           stages == Append(calc.stages, "clamp_luminance")
       IN IF ~luminance_reaches_min(Unit, v2)
          THEN calc' = [calc EXCEPT !.pc = "bisection_search", !.stages = stages,
                          !.kind = "dark", !.a = Unit, !.b = 255 * Unit,
                          !.fa = clamp_f("dark", Unit, v2),
                          !.fb = clamp_f("dark", 255 * Unit, v2), !.i = 0]
          ELSE IF ~luminance_within_max(Unit, v2)
          THEN calc' = [calc EXCEPT !.pc = "bisection_search", !.stages = stages,
                          !.kind = "bright", !.a = 0, !.b = Unit,
                          !.fa = clamp_f("bright", 0, v2),
                          !.fb = clamp_f("bright", Unit, v2), !.i = 0]
          ELSE calc' = [calc EXCEPT !.pc = "set_color", !.stages = stages]
    /\ UNCHANGED cogVars

\* One iteration of bisection_search inside clamp_luminance.
ClampBisect ==
    /\ calc.fn = "color" /\ calc.pc = "bisection_search"
    /\ calc.i < bisection_n
    /\ LET m == (calc.a + calc.b) \div 2
           fm == clamp_f(calc.kind, m, HalvesOf(RedOf(calc.effective_color)))
       IN calc' = [bisection_update(calc, m, fm) EXCEPT !.i = calc.i + 1]
    /\ UNCHANGED cogVars

\* bisection_search returns a; clamp_luminance returns the scaled color.
ClampReturn ==
    /\ calc.fn = "color" /\ calc.pc = "bisection_search"
    /\ calc.i = bisection_n
    /\ LET a == IF calc.fa THEN calc.a ELSE calc.b
       IN calc' = [calc EXCEPT !.pc = "set_color", !.kind = "none", !.a = 0, !.b = 0,
                      !.fa = FALSE, !.fb = FALSE, !.i = 0,
                      !.effective_color =
                         scaled_gray(a, HalvesOf(RedOf(calc.effective_color)))]
    /\ UNCHANGED cogVars

\* await self.set_color(author, server, effective_color)
EffectiveHanded ==
    /\ calc.fn = "color" /\ calc.pc = "set_color"
    /\ calc' = [calc EXCEPT !.pc = "handed"]
    /\ UNCHANGED cogVars

NextEffectiveColor ==
    EffectiveRgb9 \/ ClampStart \/ ClampBisect \/ ClampReturn \/ EffectiveHanded

SpecEffectiveColor == InitEffectiveColor /\ [][NextEffectiveColor]_vars

\* C13: the color handed to set_color has gone through the luminance clamp
\* first and the quantizer after it, so that with palette limiting on every
\* channel of it is a fixed point of quantize.
C13_ClampThenQuantize ==
    calc.pc = "handed" /\ calc.LIMIT_PALETTE =>
       /\ calc.stages = <<"clamp_luminance", "rgb9">>
       /\ quantize(RedOf(calc.effective_color)) = RedOf(calc.effective_color)
       /\ quantize(GreenOf(calc.effective_color)) = GreenOf(calc.effective_color)
       /\ quantize(BlueOf(calc.effective_color)) = BlueOf(calc.effective_color)

====
